---- MODULE Spec2Model ----
(***************************************************************************)
(* A model of korylprince/drive-archive: the tree builder (NewTree), the   *)
(* breadth-first walker (File.Walk), the download pipeline (DownloadTree   *)
(* and its downloader workers) and the backoff wrapper (retry).            *)
(*                                                                         *)
(* Strings are sequences of one-character strings, so that sanitising,     *)
(* joining, extension splitting and renaming are computed character by     *)
(* character as the Go code computes them.  File ids are naturals whose    *)
(* order stands for the lexicographic order of the id strings; 0 is the    *)
(* empty id of the synthetic "Other Files" root.                           *)
(***************************************************************************)
EXTENDS Integers, Sequences, FiniteSets, TLC

VARIABLES
    list,       \* NewTree's input: record id -> drive.File record
    Files,      \* File.Files of every node: node id -> sequence of node ids
    Parents,    \* File.Parents of every node: node id -> sequence of node ids
    pc,         \* position of run(): which call is executing and where
    q,          \* Walk's queue of pending entries
    visit,      \* the arguments of the latest call of Walk's visit function
    files,      \* DownloadTree's map from path to occurrence counter
    sending,    \* the job the producer is blocked sending on the channel
    closed,     \* whether the job channel has been closed
    wk,         \* the downloader goroutines: (call, worker) -> state
    sent,       \* jobs sent on the channel by the current DownloadTree call
    processed,  \* jobs for which DownloadFile has returned, with its outcome
    dirs,       \* directories created by MkdirAll (relative paths)
    ret,        \* return value of each DownloadTree call
    rMax,       \* retry: maxTries argument
    rDelay,     \* retry: the start argument as passed by the caller
    rTries,     \* retry: the tries counter
    rStart,     \* retry: the current delay (start)
    rPc,        \* retry: position inside the loop
    rErr,       \* retry: error of the last attempt / returned error
    rCalls,     \* retry: outcomes of the invocations of f() so far
    rSleeps,    \* retry: the sleeps made so far, in order
    dFile,      \* DownloadFile: the *drive.File argument
    dLocal,     \* DownloadFile: the local file at the path argument
    dNow,       \* DownloadFile: the time of the local clock
    dRuns       \* DownloadFile: the calls made so far, with their results

treeVars  == <<list, Files, Parents>>
walkVars  == <<q, visit>>
dlVars    == <<files, sending, closed, wk, sent, processed, dirs, ret>>
retryVars == <<rMax, rDelay, rTries, rStart, rPc, rErr, rCalls, rSleeps>>
syncVars  == <<dFile, dLocal, dNow, dRuns>>
vars      == <<treeVars, pc, walkVars, dlVars, retryVars, syncVars>>

----------------------------------------------------------------------------
(* Bounds of the model *)

\* Walk entries deeper than this are not expanded (a walk over a cyclic
\* graph would otherwise never stop).
MaxDepth == 6

\* runtime.NumCPU() of the host: the number of downloader goroutines.
NumCPU == 2

\* retry: maxTries is drawn from -1 .. MaxTriesArg.
MaxTriesArg == 4

\* retry: the model stops invoking f() after this many invocations.
MaxCalls == 5

\* retry: the initial delay is drawn from 1 .. MaxInitialDelay.
MaxInitialDelay == 2

----------------------------------------------------------------------------
(* Characters and strings *)

\* The printable ASCII characters in code order (space is code 32); the
\* double quote, the backslash and the backtick are spelled out.
AsciiTable ==
    << " ", "!", "DQUOTE", "#", "$", "%", "&", "'", "(", ")", "*", "+", ",", "-", ".", "/",
       "0", "1", "2", "3", "4", "5", "6", "7", "8", "9", ":", ";", "<", "=", ">", "?",
       "@", "A", "B", "C", "D", "E", "F", "G", "H", "I", "J", "K", "L", "M", "N", "O",
       "P", "Q", "R", "S", "T", "U", "V", "W", "X", "Y", "Z", "[", "BSLASH", "]", "^", "_",
       "BTICK", "a", "b", "c", "d", "e", "f", "g", "h", "i", "j", "k", "l", "m", "n", "o",
       "p", "q", "r", "s", "t", "u", "v", "w", "x", "y", "z", "{", "|", "}", "~" >>

Code(c) == 31 + (CHOOSE i \in 1..Len(AsciiTable) : AsciiTable[i] = c)

\* The characters the regular expression ValidPathChars does NOT match.
AllowedChars ==
    { AsciiTable[i] : i \in 34..59 } \cup { AsciiTable[i] : i \in 66..91 }
    \cup { AsciiTable[i] : i \in 17..26 }
    \cup { " ", "!", "@", "#", "$", "%", "^", "&", "(", ")", "-", "_", "=", "+",
           "[", "]", "{", "}", "'", ";", ".", ",", "BTICK", "~" }

\* ValidPathChars.ReplaceAllString(name, "")
Sanitize(name) == SelectSeq(name, LAMBDA c : c \in AllowedChars)

\* The < of Go on strings: bytewise lexicographic.
RECURSIVE StrLess(_, _)
StrLess(s, t) ==
    IF t = <<>> THEN FALSE
    ELSE IF s = <<>> THEN TRUE
    ELSE IF Code(Head(s)) # Code(Head(t)) THEN Code(Head(s)) < Code(Head(t))
    ELSE StrLess(Tail(s), Tail(t))

\* The %d verb of fmt for a natural number.
RECURSIVE Decimal(_)
Decimal(n) ==
    IF n < 10 THEN << AsciiTable[17 + n] >>
    ELSE Decimal(n \div 10) \o << AsciiTable[17 + (n % 10)] >>

\* filepath.Ext: the suffix starting at the last dot of the last element.
RECURSIVE ExtFrom(_, _)
ExtFrom(path, i) ==
    IF i < 1 \/ path[i] = "/" THEN <<>>
    ELSE IF path[i] = "." THEN SubSeq(path, i, Len(path))
    ELSE ExtFrom(path, i - 1)

Ext(path) == ExtFrom(path, Len(path))

\* strings.Split(path, "/")
RECURSIVE SplitSlash(_, _, _)
SplitSlash(s, cur, acc) ==
    IF s = <<>> THEN Append(acc, cur)
    ELSE IF Head(s) = "/" THEN SplitSlash(Tail(s), <<>>, Append(acc, cur))
    ELSE SplitSlash(Tail(s), Append(cur, Head(s)), acc)

\* The element-wise part of filepath.Clean on a relative path.
RECURSIVE CleanElems(_, _)
CleanElems(elems, out) ==
    IF elems = <<>> THEN out
    ELSE LET e == Head(elems) IN
         IF e = <<>> \/ e = <<".">> THEN CleanElems(Tail(elems), out)
         ELSE IF e = <<".", ".">> /\ out # <<>> /\ out[Len(out)] # <<".", ".">>
              THEN CleanElems(Tail(elems), SubSeq(out, 1, Len(out) - 1))
         ELSE CleanElems(Tail(elems), Append(out, e))

RECURSIVE JoinSlash(_)
JoinSlash(elems) ==
    IF elems = <<>> THEN <<>>
    ELSE IF Len(elems) = 1 THEN elems[1]
    ELSE elems[1] \o <<"/">> \o JoinSlash(Tail(elems))

\* filepath.Clean on a relative path.
Clean(path) ==
    LET out == CleanElems(SplitSlash(path, <<>>, <<>>), <<>>)
    IN  IF out = <<>> THEN <<".">> ELSE JoinSlash(out)

\* filepath.Join(a, b): empty elements are ignored, the result is cleaned.
Join(a, b) ==
    IF a = <<>> /\ b = <<>> THEN <<>>
    ELSE IF a = <<>> THEN Clean(b)
    ELSE IF b = <<>> THEN Clean(a)
    ELSE Clean(a \o <<"/">> \o b)

----------------------------------------------------------------------------
(* Records, nodes and NewTree *)

FileTypeFolder   == "application/vnd.google-apps.folder"
FileTypeShortcut == "application/vnd.google-apps.shortcut"
FileTypeDocument == "application/vnd.google-apps.document"
FileTypePlain    == "image/png"

\* The ids of the records of the list, the id passed as rootID, and the
\* empty id of the "Other Files" root.
RecordIds == {1, 2, 3}
RootID    == 4
OrphanID  == 0

\* ShortcutDetails == nil
NoTarget == -1

MyDrive    == <<"M", "y", " ", "D", "r", "i", "v", "e">>
OtherFiles == <<"O", "t", "h", "e", "r", " ", "F", "i", "l", "e", "s">>

\* The extensions DownloadTree appends, per mime type (the entry of the one
\* exported type the records of the model use).
ExportExtensions ==
    [ m \in { FileTypeDocument } |-> <<".", "d", "o", "c", "x">> ]

\* The nodes map of NewTree: rootID and every record id.
NodeIds(l) == (DOMAIN l) \cup {RootID}

AllNodes(l) == NodeIds(l) \cup {OrphanID}

\* The drive.File a node carries: the synthetic roots carry only a mime type,
\* and the root wins over a record of the same id.
NodeFile(l, n) ==
    IF n = RootID \/ n = OrphanID
    THEN [Name |-> IF n = RootID THEN MyDrive ELSE OtherFiles,
          MimeType |-> FileTypeFolder, Parents |-> <<>>, TargetId |-> NoTarget]
    ELSE l[n]

NameOf(l, n) == NodeFile(l, n).Name

\* File.IsFolder
IsFolder(l, n) == NodeFile(l, n).MimeType = FileTypeFolder

\* Second pass of NewTree: the node a shortcut resolves to, or NoTarget.
ShortcutTarget(l, n) ==
    LET f == NodeFile(l, n) IN
    IF f.MimeType = FileTypeShortcut /\ f.TargetId # NoTarget
       /\ f.TargetId \in NodeIds(l)
    THEN f.TargetId ELSE NoTarget

\* Third pass of NewTree, for one node f: the (parent, child) links made.
RECURSIVE ValidParents(_, _)
ValidParents(l, pids) ==
    IF pids = <<>> THEN <<>>
    ELSE LET p == Head(pids) IN
         IF p \in NodeIds(l) /\ IsFolder(l, p)
         THEN <<p>> \o ValidParents(l, Tail(pids))
         ELSE ValidParents(l, Tail(pids))

Connect(l, f) ==
    LET ps == ValidParents(l, l[f].Parents) IN
    IF ps = <<>> THEN << [p |-> OrphanID, c |-> f] >>
    ELSE [ i \in 1..Len(ps) |-> [p |-> ps[i], c |-> f] ]

\* Third pass of NewTree over the nodes map in iteration order `order`.
RECURSIVE Links(_, _)
Links(l, order) ==
    IF order = <<>> THEN <<>>
    ELSE IF Head(order) = RootID THEN Links(l, Tail(order))
    ELSE Connect(l, Head(order)) \o Links(l, Tail(order))

RECURSIVE LinkChildren(_, _)
LinkChildren(links, p) ==
    IF links = <<>> THEN <<>>
    ELSE IF Head(links).p = p THEN <<Head(links).c>> \o LinkChildren(Tail(links), p)
    ELSE LinkChildren(Tail(links), p)

RECURSIVE LinkParents(_, _)
LinkParents(links, c) ==
    IF links = <<>> THEN <<>>
    ELSE IF Head(links).c = c THEN <<Head(links).p>> \o LinkParents(Tail(links), c)
    ELSE LinkParents(Tail(links), c)

\* File.Files and File.Parents after the third pass.
ConnectedFiles(l, order) ==
    [ n \in AllNodes(l) |-> LinkChildren(Links(l, order), n) ]

ConnectedParents(l, order) ==
    [ n \in AllNodes(l) |-> LinkParents(Links(l, order), n) ]

\* Faulty variant: children of equal sanitized name are not ordered by id.
LessByNameOnly(l, a, b) ==
    StrLess(Sanitize(NameOf(l, a)), Sanitize(NameOf(l, b)))

\* The comparator of sortfunc.
Less(l, a, b) ==
    LET ni == Sanitize(NameOf(l, a))
        nj == Sanitize(NameOf(l, b))
    IN  IF ni = nj THEN a < b ELSE StrLess(ni, nj)

\* sort.SliceStable: a stable insertion sort under Less.
RECURSIVE InsertSorted(_, _, _)
InsertSorted(l, s, x) ==
    IF s = <<>> THEN <<x>>
    ELSE IF Less(l, x, Head(s)) THEN <<x>> \o s
    ELSE <<Head(s)>> \o InsertSorted(l, Tail(s), x)

RECURSIVE SliceStable(_, _)
SliceStable(l, s) ==
    IF s = <<>> THEN <<>>
    ELSE InsertSorted(l, SliceStable(l, SubSeq(s, 1, Len(s) - 1)), s[Len(s)])

----------------------------------------------------------------------------
(* The record lists the model is run on *)

NameA   == <<"a">>
NameA2  == <<"a", "_", "2">>
NameDir == <<"a", "/">>

Rec(name, mime, parents, target) ==
    [Name |-> name, MimeType |-> mime, Parents |-> parents, TargetId |-> target]

\* The other record ids, cyclically before and after id i.
PrevId(i) == IF i = 1 THEN 3 ELSE i - 1
NextId(i) == IF i = 3 THEN 1 ELSE i + 1

\* The records drawn for id i: folders, plain files (two names), an exported
\* document and shortcuts, with no parent, one parent or two parents.
RecordOptions(i) ==
    { Rec(NameDir, FileTypeFolder, ps, NoTarget) :
        ps \in { <<>>, <<RootID>>, <<PrevId(i)>> } }
    \cup { Rec(NameA, FileTypePlain, ps, NoTarget) :
        ps \in { <<RootID>>, <<PrevId(i)>>, <<PrevId(i), RootID>> } }
    \cup { Rec(NameA2, FileTypePlain, <<RootID>>, NoTarget) }
    \cup { Rec(NameA, FileTypeDocument, <<RootID>>, NoTarget) }
    \cup { Rec(NameA, FileTypeShortcut, <<PrevId(i)>>, t) :
        t \in { NoTarget, PrevId(i), NextId(i) } }
    \cup { Rec(NameA, FileTypeShortcut, <<RootID>>, PrevId(i)) }

\* The lists of three records.
RecordLists ==
    { l \in [RecordIds -> UNION { RecordOptions(i) : i \in RecordIds }] :
        \A i \in RecordIds : l[i] \in RecordOptions(i) }

\* The orders in which Go may iterate over the nodes map.
\* (the entry of rootID is skipped by the third pass wherever it comes, so
\* it is drawn first).
Orders(l) ==
    { o \in [1..Cardinality(NodeIds(l)) -> NodeIds(l)] :
        /\ o[1] = RootID
        /\ \A i, j \in DOMAIN o : i # j => o[i] # o[j] }

----------------------------------------------------------------------------
(* File.Walk *)

\* A queue entry of Walk.  trail is a history field: the (node, parents) pairs
\* of the entries on the way from the root to this entry.
Entry(f, path, parents, trail) ==
    [f |-> f, path |-> path, parents |-> parents, trail |-> trail]

\* q at the start of fi.Walk
WalkStart(fi) == << Entry(fi, Sanitize(NameOf(list, fi)), {}, <<>>) >>

\* "prevent loops": the entry is dropped when its own id is among its parents.
Loops(n) == n.f \in n.parents

\* Faulty variant: the shortcut itself is visited.
ResolveNothing(n) == n.f

\* "resolve shortcuts": the node passed to visit.
Resolve(n) ==
    IF ShortcutTarget(list, n.f) # NoTarget THEN ShortcutTarget(list, n.f) ELSE n.f

\* The entries appended for the children of the visited node t of entry n.
ChildEntries(n, t, children) ==
    [ i \in 1..Len(children) |->
        Entry(children[i],
              Join(n.path, Sanitize(NameOf(list, children[i]))),
              {t} \cup n.parents,
              Append(n.trail, [f |-> n.f, parents |-> n.parents])) ]

Depth(n) == Len(n.trail) + 1

\* The head of the queue can be processed within the model's depth bound.
CanPop == q # <<>> /\ Depth(Head(q)) <= MaxDepth

NoVisit == [f |-> NoTarget, via |-> NoTarget, path |-> <<>>, parents |-> {}]

\* The call f(n.path, n.f) made for entry n, whose resolved node is t.
VisitOf(n, t) == [f |-> t, via |-> n.f, path |-> n.path, parents |-> n.parents]

----------------------------------------------------------------------------
(* run(): NewTree's two sorting walks, then DownloadTree on each tree *)

At(fn, tree, at) == [fn |-> fn, tree |-> tree, at |-> at, err |-> "nil"]

\* "if downloaders < 1 { downloaders = runtime.NumCPU() }"
Downloaders(n) == IF n < 1 THEN NumCPU ELSE n

\* The downloader goroutines of DownloadTree(root, out, 0), as run() calls it.
Workers == 1..Downloaders(0)

\* make(map[string]int)
EmptyMap == [p \in {} |-> 0]

\* A *download value.  Cand is a history field: the path before the
\* uniqueness check.
Job(f, path, cand) == [File |-> f, Path |-> path, Cand |-> cand]

NoJob == Job(NoTarget, <<>>, <<>>)

Idle    == [st |-> "idle", job |-> 0]
NotYet  == [st |-> "none", job |-> 0]
Exited  == [st |-> "exited", job |-> 0]
Busy(k) == [st |-> "busy", job |-> k]

NoFile == [exists |-> FALSE, bytes |-> <<>>, mtime |-> 0]

SyncIdle ==
    /\ dFile = [MimeType |-> "", Md5Checksum |-> "", ModifiedTime |-> "", Body |-> <<>>]
    /\ dLocal = NoFile /\ dNow = 0 /\ dRuns = <<>>

RetryIdle ==
    /\ rMax = 0 /\ rDelay = 0 /\ rTries = 0 /\ rStart = 0 /\ rPc = "off"
    /\ rErr = [api |-> FALSE, Code |-> -1, Reasons |-> <<>>]
    /\ rCalls = <<>> /\ rSleeps = <<>>

Init ==
    /\ \E l \in RecordLists : \E o \in Orders(l) :
          /\ list = l
          /\ Files = ConnectedFiles(l, o)
          /\ Parents = ConnectedParents(l, o)
    /\ pc = At("NewTree", RootID, "walk")
    /\ q = WalkStart(RootID)
    /\ visit = NoVisit
    /\ files = EmptyMap
    /\ sending = NoJob
    /\ closed = FALSE
    /\ wk = [t \in {RootID, OrphanID} |-> [w \in Workers |-> NotYet]]
    /\ sent = <<>>
    /\ processed = <<>>
    /\ dirs = {}
    /\ ret = [t \in {RootID, OrphanID} |-> "none"]
    /\ RetryIdle
    /\ SyncIdle

\* One iteration of Walk's loop that drops a looping entry (any walk).
WalkDrop ==
    /\ pc.at = "walk"
    /\ CanPop
    /\ Loops(Head(q))
    /\ q' = Tail(q)
    /\ UNCHANGED <<treeVars, pc, visit, dlVars, retryVars, syncVars>>

\* One iteration of Walk's loop under sortfunc.
SortVisit ==
    /\ pc.fn = "NewTree" /\ pc.at = "walk"
    /\ CanPop
    /\ ~Loops(Head(q))
    /\ LET n == Head(q)
           t == Resolve(n)
           sorted == SliceStable(list, Files[t])
       IN  /\ Files' = [Files EXCEPT ![t] = sorted]
           /\ Parents' = [Parents EXCEPT ![t] = SliceStable(list, Parents[t])]
           /\ visit' = VisitOf(n, t)
           /\ q' = Tail(q) \o ChildEntries(n, t, sorted)
    /\ UNCHANGED <<list, pc, dlVars, retryVars, syncVars>>

\* root.Walk(sortfunc) has returned: orphans.Walk(sortfunc) starts.
SortRootDone ==
    /\ pc.fn = "NewTree" /\ pc.at = "walk" /\ pc.tree = RootID
    /\ q = <<>>
    /\ pc' = At("NewTree", OrphanID, "walk")
    /\ q' = WalkStart(OrphanID)
    /\ visit' = NoVisit
    /\ UNCHANGED <<treeVars, dlVars, retryVars, syncVars>>

\* orphans.Walk(sortfunc) has returned: NewTree returns and run() calls
\* DownloadTree(rootTree, out, 0).
NewTreeReturn ==
    /\ pc.fn = "NewTree" /\ pc.at = "walk" /\ pc.tree = OrphanID
    /\ q = <<>>
    /\ pc' = At("DownloadTree", RootID, "start")
    /\ visit' = NoVisit
    /\ UNCHANGED <<treeVars, q, dlVars, retryVars, syncVars>>

----------------------------------------------------------------------------
(* DownloadTree and the downloader goroutines *)

\* files[path] of a Go map[string]int: zero when absent.
Count(m, path) == IF path \in DOMAIN m THEN m[path] ELSE 0

Put(m, path, n) ==
    [ p \in (DOMAIN m) \cup {path} |-> IF p = path THEN n ELSE m[p] ]

\* Faulty variant: the suffix counts the earlier uses ("Doc_1").
RenamedFromOne(path, n) ==
    LET ext == Ext(path)
        base == SubSeq(path, 1, Len(path) - Len(ext))
    IN  base \o <<"_">> \o Decimal(n - 1) \o ext

\* fmt.Sprintf("%s_%d%s", base, n, ext) with ext the extension of path.
Renamed(path, n) ==
    LET ext == Ext(path)
        base == SubSeq(path, 1, Len(path) - Len(ext))
    IN  base \o <<"_">> \o Decimal(n) \o ext

\* Faulty variant: the renamed path is sent without being checked again.
CheckPathOnce(m, path) ==
    LET n == Count(m, path) + 1 IN
    [files |-> Put(m, path, n), path |-> IF n > 1 THEN Renamed(path, n) ELSE path]

\* The checkpath loop: the map after it and the path that is sent.
RECURSIVE CheckPath(_, _)
CheckPath(m, path) ==
    LET n == Count(m, path) + 1
        m2 == Put(m, path, n)
    IN  IF n > 1 THEN CheckPath(m2, Renamed(path, n))
        ELSE [files |-> m2, path |-> path]

\* Faulty variant: no extension is added.
WithExtensionNever(path, t) == path

\* The path of the job before the uniqueness check.
WithExtension(path, t) ==
    IF NodeFile(list, t).MimeType \in DOMAIN ExportExtensions
    THEN path \o ExportExtensions[NodeFile(list, t).MimeType]
    ELSE path

InDownload == pc.fn = "DownloadTree"

\* Faulty variant: the directory of a visited folder is not created.
MkdirAllNothing(ds, path) == ds

\* os.MkdirAll(filepath.Join(outpath, path), 0755) returning nil: the
\* directories that exist under outpath afterwards.
MkdirAll(ds, path) == ds \cup {path}

\* DownloadTree up to the walk: the channel, `downloaders` goroutines
\* (runtime.NumCPU() of them, as run() passes 0) and the files map.
DTStart ==
    /\ InDownload /\ pc.at = "start"
    /\ wk' = [wk EXCEPT ![pc.tree] = [w \in Workers |-> Idle]]
    /\ closed' = FALSE
    /\ files' = EmptyMap
    /\ sending' = NoJob
    /\ sent' = <<>>
    /\ processed' = <<>>
    /\ q' = WalkStart(pc.tree)
    /\ visit' = NoVisit
    /\ pc' = [pc EXCEPT !.at = "walk"]
    /\ UNCHANGED <<treeVars, dirs, ret, retryVars, syncVars>>

\* Faulty variant: the producer goes on walking while its send waits.
WalkingWhileSending == pc.at \in {"walk", "send"}

\* The producer is in Walk's loop, not blocked in "c <- &download{...}".
Walking == pc.at = "walk"

\* Walk iteration whose visit finds a folder and creates its directory.
DTVisitFolder ==
    /\ InDownload /\ Walking
    /\ CanPop /\ ~Loops(Head(q))
    /\ LET n == Head(q)
           t == Resolve(n)
       IN  /\ IsFolder(list, t)
           /\ visit' = VisitOf(n, t)
           /\ dirs' = MkdirAll(dirs, n.path)
           /\ q' = Tail(q) \o ChildEntries(n, t, Files[t])
    /\ UNCHANGED <<treeVars, pc, files, sending, closed, wk, sent, processed,
                   ret, retryVars, syncVars>>

\* Faulty variant: Walk goes on with the queue whatever visit returned.
AfterVisitContinue(err) == "walk"

\* Where Walk is after f(n.path, n.f) returned err: in its loop, or returned.
AfterVisit(err) == IF err = "nil" THEN "walk" ELSE "walked"

\* Walk iteration whose visit finds a folder and MkdirAll fails: visit
\* returns the error and Walk returns it.
DTVisitFolderErr ==
    /\ InDownload /\ Walking
    /\ CanPop /\ ~Loops(Head(q))
    /\ LET n == Head(q)
           t == Resolve(n)
       IN  /\ IsFolder(list, t)
           /\ visit' = VisitOf(n, t)
           /\ q' = Tail(q)
    /\ pc' = [pc EXCEPT !.at = AfterVisit("mkdir"), !.err = "mkdir"]
    /\ UNCHANGED <<treeVars, dlVars, retryVars, syncVars>>

\* Walk iteration whose visit finds a shortcut: "could not resolve shortcut".
DTVisitShortcut ==
    /\ InDownload /\ Walking
    /\ CanPop /\ ~Loops(Head(q))
    /\ LET n == Head(q)
           t == Resolve(n)
       IN  /\ ~IsFolder(list, t)
           /\ NodeFile(list, t).MimeType = FileTypeShortcut
           /\ visit' = VisitOf(n, t)
           /\ q' = Tail(q) \o ChildEntries(n, t, Files[t])
    /\ UNCHANGED <<treeVars, pc, dlVars, retryVars, syncVars>>

\* Walk iteration whose visit finds a file: the path is made unique and the
\* producer blocks on the channel send.
DTVisitFile ==
    /\ InDownload /\ Walking
    /\ CanPop /\ ~Loops(Head(q))
    /\ LET n == Head(q)
           t == Resolve(n)
           r == CheckPath(files, WithExtension(n.path, t))
       IN  /\ ~IsFolder(list, t)
           /\ NodeFile(list, t).MimeType # FileTypeShortcut
           /\ visit' = VisitOf(n, t)
           /\ files' = r.files
           /\ sending' = Job(t, r.path, WithExtension(n.path, t))
           /\ q' = Tail(q) \o ChildEntries(n, t, Files[t])
    /\ pc' = [pc EXCEPT !.at = "send"]
    /\ UNCHANGED <<treeVars, closed, wk, sent, processed, dirs, ret, retryVars, syncVars>>

\* Faulty variant: a downloader takes the next job whatever it is doing.
CanReceiveAlways(w) == TRUE

\* Downloader w is at "for d := range c", ready to receive.
CanReceive(w) == wk[pc.tree][w].st = "idle"

\* A downloader blocked in "for d := range c" receives the job: the send
\* completes and visit returns nil.
Receive(w) ==
    /\ InDownload /\ pc.at = "send"
    /\ CanReceive(w)
    /\ sent' = Append(sent, sending)
    /\ processed' = Append(processed, <<>>)
    /\ wk' = [wk EXCEPT ![pc.tree][w] = Busy(Len(sent) + 1)]
    /\ sending' = NoJob
    /\ pc' = [pc EXCEPT !.at = "walk"]
    /\ UNCHANGED <<treeVars, walkVars, files, closed, dirs, ret, retryVars, syncVars>>

\* The outcomes of DownloadFile as the downloader sees them.
Outcomes == {"downloaded", "skipped", "error"}

\* Faulty variant: a downloader returns at the first DownloadFile error.
AfterJobStopOnError(o) == IF o = "error" THEN Exited ELSE Idle

\* The state of a downloader after a job: every branch of the loop body
\* continues with the next job.
AfterJob(o) == Idle

\* DownloadFile returns in downloader w; the outcome is logged.
Finish(w) ==
    /\ wk[pc.tree][w].st = "busy"
    /\ \E o \in Outcomes :
          /\ processed' = [processed EXCEPT ![wk[pc.tree][w].job] = Append(@, o)]
          /\ wk' = [wk EXCEPT ![pc.tree][w] = AfterJob(o)]
    /\ UNCHANGED <<treeVars, pc, walkVars, files, sending, closed, sent, dirs,
                   ret, retryVars, syncVars>>

\* Walk has returned nil: DownloadTree closes the channel.
DTWalkDone ==
    /\ InDownload /\ pc.at = "walk"
    /\ q = <<>>
    /\ closed' = TRUE
    /\ pc' = [pc EXCEPT !.at = "wait"]
    /\ UNCHANGED <<treeVars, walkVars, files, sending, wk, sent, processed,
                   dirs, ret, retryVars, syncVars>>

\* Walk has returned an error: DownloadTree closes the channel.
DTWalkFailed ==
    /\ InDownload /\ pc.at = "walked"
    /\ closed' = TRUE
    /\ pc' = [pc EXCEPT !.at = "wait"]
    /\ UNCHANGED <<treeVars, walkVars, files, sending, wk, sent, processed,
                   dirs, ret, retryVars, syncVars>>

\* The range loop of downloader w ends on the closed channel.
WorkerExit(w) ==
    /\ InDownload
    /\ closed
    /\ wk[pc.tree][w].st = "idle"
    /\ wk' = [wk EXCEPT ![pc.tree][w] = Exited]
    /\ UNCHANGED <<treeVars, pc, walkVars, files, sending, closed, sent,
                   processed, dirs, ret, retryVars, syncVars>>

\* Faulty variant: DownloadTree returns without waiting for the downloaders.
WaitOverNoWait(t) == TRUE

\* eg.Wait() returns: every goroutine of the group has returned.
WaitOver(t) == \A w \in Workers : wk[t][w].st = "exited"

\* What DownloadTree returns after eg.Wait().
ReturnValue(err) == IF err = "nil" THEN "nil" ELSE "could not finish walking tree"

\* DownloadTree returns to run().
DTReturn ==
    /\ InDownload /\ pc.at = "wait"
    /\ WaitOver(pc.tree)
    /\ ret' = [ret EXCEPT ![pc.tree] = ReturnValue(pc.err)]
    /\ pc' = [fn |-> "run", tree |-> pc.tree, at |-> "returned", err |-> pc.err]
    /\ UNCHANGED <<treeVars, walkVars, files, sending, closed, wk, sent,
                   processed, dirs, retryVars, syncVars>>

\* run() after DownloadTree(rootTree): with -orphans it goes on with
\* DownloadTree(orphans, out, 0).
RunOrphans ==
    /\ pc.fn = "run" /\ pc.at = "returned" /\ pc.tree = RootID
    /\ ret[RootID] = "nil"
    /\ pc' = At("DownloadTree", OrphanID, "start")
    /\ UNCHANGED <<treeVars, walkVars, dlVars, retryVars, syncVars>>

\* run() returns: an error of the call just made, or "done!".
RunReturn ==
    /\ pc.fn = "run" /\ pc.at = "returned"
    /\ pc' = [pc EXCEPT !.at = IF ret[pc.tree] = "nil" THEN "done" ELSE "failed"]
    /\ UNCHANGED <<treeVars, walkVars, dlVars, retryVars, syncVars>>

Next ==
    \/ WalkDrop
    \/ SortVisit
    \/ SortRootDone
    \/ NewTreeReturn
    \/ DTStart
    \/ DTVisitFolder
    \/ DTVisitFolderErr
    \/ DTVisitShortcut
    \/ DTVisitFile
    \/ \E w \in Workers : Receive(w)
    \/ \E w \in Workers : Finish(w)
    \/ DTWalkDone
    \/ DTWalkFailed
    \/ \E w \in Workers : WorkerExit(w)
    \/ DTReturn
    \/ RunOrphans
    \/ RunReturn

Spec == Init /\ [][Next]_vars

----------------------------------------------------------------------------
(* retry and checkRetry *)

ErrReasonRateLimitExceeded == "rateLimitExceeded"

\* A *googleapi.Error (possibly wrapped with %w) and any other error value.
ApiError(code, reasons) == [api |-> TRUE, Code |-> code, Reasons |-> reasons]
OtherError == [api |-> FALSE, Code |-> 0, Reasons |-> <<>>]
Nil == [api |-> FALSE, Code |-> -1, Reasons |-> <<>>]

\* The errors f() returns in the model.
Errors ==
    { ApiError(c, <<>>) : c \in {400, 401, 404, 500, 501} }
    \cup { ApiError(403, r) :
             r \in { <<>>, <<"forbidden">>, <<ErrReasonRateLimitExceeded>>,
                     <<"forbidden", ErrReasonRateLimitExceeded>> } }
    \cup { OtherError }

\* Faulty variant: every error is retried.
CheckRetryAlways(err) == TRUE

\* checkRetry
checkRetry(err) ==
    IF err.api
    THEN IF err.Code \in {400, 401, 404, 501} THEN FALSE
         ELSE IF err.Code = 403
              THEN \E i \in 1..Len(err.Reasons) :
                        err.Reasons[i] = ErrReasonRateLimitExceeded
         ELSE TRUE
    ELSE FALSE

\* Faulty variant: the budget is compared before the counter is incremented.
BudgetSpentLate(tries, maxTries) == tries - 1 = maxTries

\* "if tries == maxTries" after "tries += 1"
BudgetSpent(tries, maxTries) == tries = maxTries

\* Faulty variant: the delay grows by a constant.
NextDelayLinear(start) == start + 1

\* "start *= 2"
NextDelay(start) == start * 2

TreeOff(fn) ==
    /\ list = <<>> /\ Files = <<>> /\ Parents = <<>>
    /\ pc = At(fn, RootID, "off")
    /\ q = <<>> /\ visit = NoVisit
    /\ files = EmptyMap /\ sending = NoJob /\ closed = FALSE
    /\ wk = [t \in {RootID, OrphanID} |-> [w \in Workers |-> NotYet]]
    /\ sent = <<>> /\ processed = <<>> /\ dirs = {}
    /\ ret = [t \in {RootID, OrphanID} |-> "none"]

TreeIdle == TreeOff("retry")

\* retry(start, maxTries, f) is entered.
InitRetry ==
    /\ TreeIdle
    /\ SyncIdle
    /\ rMax \in -1..MaxTriesArg
    /\ rDelay \in 1..MaxInitialDelay
    /\ rStart = rDelay
    /\ rTries = 0
    /\ rPc = "call"
    /\ rErr = Nil
    /\ rCalls = <<>>
    /\ rSleeps = <<>>

\* f() returns nil: retry returns nil.
RetryCallOk ==
    /\ rPc = "call"
    /\ Len(rCalls) < MaxCalls
    /\ rCalls' = Append(rCalls, Nil)
    /\ rErr' = Nil
    /\ rPc' = "returned"
    /\ UNCHANGED <<treeVars, pc, walkVars, dlVars, syncVars, rMax, rDelay, rTries, rStart, rSleeps>>

\* f() returns an error: retry counts it and either returns it or goes to
\* sleep.
RetryCallErr ==
    /\ rPc = "call"
    /\ Len(rCalls) < MaxCalls
    /\ \E err \in Errors :
          /\ rCalls' = Append(rCalls, err)
          /\ rErr' = err
          /\ rTries' = rTries + 1
          /\ rPc' = IF BudgetSpent(rTries + 1, rMax) \/ ~checkRetry(err)
                    THEN "returned" ELSE "sleep"
    /\ UNCHANGED <<treeVars, pc, walkVars, dlVars, syncVars, rMax, rDelay, rStart, rSleeps>>

\* time.Sleep(start); start *= 2
RetrySleep ==
    /\ rPc = "sleep"
    /\ rSleeps' = Append(rSleeps, rStart)
    /\ rStart' = NextDelay(rStart)
    /\ rPc' = "call"
    /\ UNCHANGED <<treeVars, pc, walkVars, dlVars, syncVars, rMax, rDelay, rTries, rErr, rCalls>>

NextRetry == RetryCallOk \/ RetryCallErr \/ RetrySleep

SpecRetry == InitRetry /\ [][NextRetry]_vars

----------------------------------------------------------------------------
(* Claims C1 - C3: the walk and the two trees *)

\* The (node, parents) pair of entry e already occurs on its own trail.
Recurs(e) ==
    \E i \in 1..Len(e.trail) : e.trail[i] = [f |-> e.f, parents |-> e.parents]

\* C1: Walk terminates on every finite graph built by NewTree, cycles through
\* shortcuts included.  What Walk does with an entry (drop it, or visit and
\* enqueue its children) is a function of the entry's node and carried
\* parents alone, so Walk terminates exactly when no pending entry that will
\* be visited repeats the node and parents of an entry it descends from: such
\* an entry reproduces itself forever.
C1_WalkTerminates ==
    \A k \in 1..Len(q) : ~(Recurs(q[k]) /\ ~Loops(q[k]))

\* C2: visit is never called with a node whose id is among the ids of the
\* nodes already passed to visit as ancestors on the same path (the parents
\* the entry carries).
C2_NoVisitOfAncestor ==
    visit # NoVisit => visit.f \notin visit.parents

\* The nodes reachable from the nodes of S along Files.
RECURSIVE ReachableFrom(_)
ReachableFrom(S) ==
    LET N == S \cup UNION { { Files[n][i] : i \in 1..Len(Files[n]) } : n \in S }
    IN  IF N = S THEN S ELSE ReachableFrom(N)

NewTreeReturned == pc.fn = "DownloadTree" /\ pc.tree = RootID /\ pc.at = "start"

\* C3: after NewTree every record other than the root record is reachable
\* along Files from exactly one of the two returned roots.
C3_ExactlyOneTree ==
    NewTreeReturned =>
        \A r \in (DOMAIN list) \ {RootID} :
            (r \in ReachableFrom({RootID})) # (r \in ReachableFrom({OrphanID}))

----------------------------------------------------------------------------
(* Claims C4 - C6: the download pipeline *)

\* The jobs the producer has handed to the channel, the one it is blocked
\* sending included.
JobsOut == IF sending = NoJob THEN sent ELSE Append(sent, sending)

\* C4: within one DownloadTree call no two jobs sent on the channel carry the
\* same Path.
C4_JobPathsDistinct ==
    \A i, j \in 1..Len(JobsOut) : i # j => JobsOut[i].Path # JobsOut[j].Path

\* C4 witness: three jobs went out, one of them for a candidate that was
\* renamed to a name already taken and renamed again ("a_2" to "a_2_2"),
\* and two of them for the same node reached along two paths.
C4_Witness ==
    /\ Len(sent) >= 3
    /\ \E i \in 1..Len(sent) : sent[i].Path = Join(MyDrive, NameA2 \o <<"_", "2">>)
    /\ \E i, j \in 1..Len(sent) : i # j /\ sent[i].File = sent[j].File

DownloadTreeReturned == pc.fn = "run"

\* C5: a DownloadFile error never aborts the pool or the call: no downloader
\* leaves its loop while the channel is open, and when DownloadTree returns
\* every job that was sent has been processed and the result is nil whenever
\* the walk returned no error.
C5_FailureNeverAborts ==
    /\ InDownload =>
          \A w \in Workers : wk[pc.tree][w].st = "exited" => closed
    /\ DownloadTreeReturned =>
          /\ \A k \in 1..Len(sent) : Len(processed[k]) = 1
          /\ pc.err = "nil" => ret[pc.tree] = "nil"

\* C5 witness: job j failed, and the downloader that failed it is at work on
\* a later job k (every other downloader has been busy since before j was
\* done).
C5_Witness ==
    /\ InDownload
    /\ \E w \in Workers, j, k \in 1..Len(sent) :
          /\ j < k
          /\ processed[j] = <<"error">>
          /\ wk[pc.tree][w] = Busy(k)
          /\ \A v \in Workers \ {w} :
                /\ wk[pc.tree][v].st = "busy"
                /\ wk[pc.tree][v].job < j
                /\ processed[wk[pc.tree][v].job] = <<>>

Running(t) == \E w \in Workers : wk[t][w].st \in {"idle", "busy"}

\* C6: DownloadTree returns, with the walk's error or nil, only after the
\* channel is closed, every downloader has exited and every job sent has been
\* processed; so the downloaders of the two calls never run at the same time.
C6_DrainBeforeReturn ==
    /\ DownloadTreeReturned =>
          /\ closed
          /\ ~Running(pc.tree)
          /\ \A k \in 1..Len(sent) : Len(processed[k]) = 1
          /\ (pc.err # "nil") = (ret[pc.tree] # "nil")
    /\ ~(Running(RootID) /\ Running(OrphanID))

\* C6 witness: the second call (orphaned tree) has returned the error of a
\* failed directory creation after a job had been sent.
C6_Witness ==
    /\ DownloadTreeReturned
    /\ pc.tree = OrphanID
    /\ pc.err = "mkdir"
    /\ Len(sent) >= 1
    /\ wk[RootID][1].st = "exited"

----------------------------------------------------------------------------
(* Claims C7 - C10: retry *)

\* The errors the specification classifies as permanent: 400, 401, 404, 501,
\* and 403 without the rateLimitExceeded reason.
Permanent(err) ==
    /\ err.api
    /\ \/ err.Code \in {400, 401, 404, 501}
       \/ /\ err.Code = 403
          /\ \A i \in 1..Len(err.Reasons) :
                err.Reasons[i] # ErrReasonRateLimitExceeded

Last(s) == s[Len(s)]

\* C7: after every failure that is not permanent, an error that is no API
\* error value included, retry sleeps and tries again as long as attempts
\* remain: it returns such an error only when the budget is spent.
C7_RetriesNonPermanent ==
    (rPc = "returned" /\ rErr # Nil /\ ~Permanent(rErr)) => rTries = rMax

\* C8: an attempt that fails with a permanent error ends retry at once: it
\* is the last invocation, no sleep follows it, and its error is returned,
\* whatever maxTries is.
C8_PermanentReturnsAtOnce ==
    \A i \in 1..Len(rCalls) :
        (rCalls[i] # Nil /\ Permanent(rCalls[i])) =>
            /\ i = Len(rCalls)
            /\ rPc = "returned"
            /\ rErr = rCalls[i]
            /\ Len(rSleeps) = i - 1

\* C8 witness: with unbounded attempts, a permanent error on a later attempt
\* has ended retry.
C8_Witness ==
    /\ rMax <= 0
    /\ Len(rCalls) >= 3
    /\ Last(rCalls) # Nil /\ Permanent(Last(rCalls))
    /\ rPc = "returned"

\* C9: the k-th sleep lasts start * 2^(k-1) and lies between attempt k and
\* attempt k+1; an operation that succeeds on its third attempt makes retry
\* return nil after exactly the sleeps start and 2*start.
C9_BackoffDoubles ==
    /\ \A k \in 1..Len(rSleeps) : rSleeps[k] = rDelay * 2^(k - 1)
    /\ rPc = "call" => Len(rSleeps) = Len(rCalls)
    /\ rPc \in {"sleep", "returned"} => Len(rSleeps) = Len(rCalls) - 1
    /\ (rPc = "returned" /\ Len(rCalls) = 3 /\ rCalls[3] = Nil) =>
          /\ rErr = Nil
          /\ rSleeps = <<rDelay, 2 * rDelay>>

\* C9 witness: two transient failures, then success, with maxTries >= 3 and
\* a delay other than 1.
C9_Witness ==
    /\ rMax >= 3
    /\ rDelay > 1
    /\ rPc = "returned"
    /\ Len(rCalls) = 3 /\ rCalls[3] = Nil
    /\ rSleeps = <<rDelay, 2 * rDelay>>

\* C10: with maxTries >= 1 the operation is invoked at most maxTries times,
\* a returned error is the error of the last attempt, and maxTries = 1 means
\* one invocation and no sleep; with maxTries <= 0 retry returns only on
\* success or on an error checkRetry refuses.
C10_AttemptBudget ==
    /\ rMax >= 1 => Len(rCalls) <= rMax
    /\ rMax = 1 => rSleeps = <<>>
    /\ (rPc = "returned" /\ rErr # Nil) => rErr = Last(rCalls)
    /\ (rPc = "returned" /\ rErr = Nil) => Last(rCalls) = Nil
    /\ (rPc = "returned" /\ rMax <= 0) =>
          (Last(rCalls) = Nil \/ ~checkRetry(Last(rCalls)))
    /\ (rPc = "returned" /\ rMax >= 1 /\ Len(rCalls) < rMax) =>
          (Last(rCalls) = Nil \/ ~checkRetry(Last(rCalls)))

\* C10 witness: the budget of maxTries >= 2 attempts is used up by
\* retryable errors and the last one is returned.
C10_Witness ==
    /\ rMax >= 2
    /\ rPc = "returned"
    /\ Len(rCalls) = rMax
    /\ rErr = Last(rCalls)
    /\ checkRetry(rErr)
    /\ Len(rSleeps) = rMax - 1

----------------------------------------------------------------------------
(* Claims C11 - C12: directories and jobs *)

\* The directories a file at path lies in: the prefixes of path that end
\* before a separator.
AncestorDirs(path) ==
    { SubSeq(path, 1, k - 1) : k \in { i \in 1..Len(path) : path[i] = "/" } }

\* C11: for every job handed to the channel, MkdirAll has returned
\* successfully for the directory of each ancestor folder on the job's path
\* before the job was sent, so no downloader works on a job whose directory
\* is missing.
C11_DirsBeforeJobs ==
    \A k \in 1..Len(JobsOut) : AncestorDirs(JobsOut[k].Path) \subseteq dirs

\* C11 witness: a downloader is at work on a job two directories deep, a
\* file below a folder below the root.
C11_Witness ==
    /\ InDownload
    /\ \E w \in Workers :
          /\ wk[pc.tree][w].st = "busy"
          /\ Cardinality(AncestorDirs(sent[wk[pc.tree][w].job].Path)) >= 2

\* The downloaders at work on the k-th job received.
WorkersOn(k) == { w \in Workers : wk[pc.tree][w] = Busy(k) }

\* C12: every job the producer builds is received by exactly one downloader
\* and DownloadFile runs for it exactly once.  Each job adds exactly one new
\* key to the files map, so the jobs handed to the channel are as many as
\* the keys and carry exactly the keys as paths (none lost, none twice);
\* a received job is either in the hands of one downloader and not yet
\* processed, or in nobody's hands and processed once; DownloadTree returns
\* with no job left in the send and every job processed; and a send always
\* faces a downloader that has not exited, the pool never being empty.
C12_EachJobOnce ==
    /\ Workers # {}
    /\ Len(JobsOut) = Cardinality(DOMAIN files)
    /\ { JobsOut[k].Path : k \in 1..Len(JobsOut) } = DOMAIN files
    /\ Len(processed) = Len(sent)
    /\ \A k \in 1..Len(sent) :
          \/ Cardinality(WorkersOn(k)) = 1 /\ processed[k] = <<>>
          \/ WorkersOn(k) = {} /\ Len(processed[k]) = 1
    /\ DownloadTreeReturned =>
          /\ sending = NoJob
          /\ \A k \in 1..Len(sent) : Len(processed[k]) = 1
    /\ (InDownload /\ pc.at = "send") =>
          \E w \in Workers : wk[pc.tree][w].st \in {"idle", "busy"}

\* C12 witness: two downloaders are at work, each on a job of its own, while
\* a further job waits in the send.
C12_Witness ==
    /\ InDownload /\ pc.at = "send"
    /\ \E v, w \in Workers :
          /\ v # w
          /\ wk[pc.tree][v].st = "busy" /\ wk[pc.tree][w].st = "busy"
          /\ wk[pc.tree][v].job # wk[pc.tree][w].job

----------------------------------------------------------------------------
(* Claim C13: the layout does not depend on the order of the records *)

\* The nodes in ascending order of id, the root first: one of the orders in
\* which the nodes map can be iterated.
RECURSIVE Ascending(_)
Ascending(S) ==
    IF S = {} THEN <<>>
    ELSE LET m == CHOOSE x \in S : \A y \in S : x <= y
         IN  <<m>> \o Ascending(S \ {m})

AscendingOrder(l) == <<RootID>> \o Ascending(NodeIds(l) \ {RootID})

\* The sorted children of node n when the nodes are connected in ascending
\* order: a function of the record list alone.
SortedFiles(l, n) == SliceStable(l, ConnectedFiles(l, AscendingOrder(l))[n])

\* C13: the layout is independent of the order of the records and of the
\* order in which the nodes map is iterated.  Once NewTree has returned,
\* the children of every node that can be reached from the two roots are in
\* the one order the record list determines, whatever order the nodes were
\* connected in; Walk and the path check of DownloadTree read nothing else
\* that depends on the order, so two runs on permutations of one list visit
\* the same (path, node) pairs and send the same job paths.
C13_OrderIndependent ==
    pc.fn # "NewTree" =>
        \A n \in ReachableFrom({RootID, OrphanID}) : Files[n] = SortedFiles(list, n)

\* C13 witness: two files of the same sanitized name lie in one folder, the
\* one of the smaller id was sent under the plain name and the other one
\* under the name with the suffix _2.
C13_Witness ==
    /\ InDownload
    /\ \E i, j \in 1..Len(sent) :
          /\ i < j
          /\ sent[i].File < sent[j].File
          /\ sent[i].Path = Join(Sanitize(MyDrive), NameA)
          /\ sent[j].Path = Join(Sanitize(MyDrive), NameA2)
          /\ NameOf(list, sent[j].File) = NameA

----------------------------------------------------------------------------
(* Claim C14: an error of visit ends the walk *)

\* C14: when visit returns an error Walk returns that error at once.  The
\* step on which an error appears is a visit of the head of the queue that
\* enqueues nothing (the queue only loses its head), and from then on no
\* visit is made and the queue is left as it is; no other step makes Walk
\* return an error, the sorting walks of NewTree never do, and the error
\* DownloadTree reports is set exactly when the walk returned one.
C14_VisitErrorStopsWalk ==
    [][ /\ (pc.err = "nil" /\ pc'.err # "nil") =>
              /\ pc.at = "walk" /\ q # <<>>
              /\ visit' = VisitOf(Head(q), Resolve(Head(q)))
              /\ q' = Tail(q)
              /\ pc'.at = "walked"
        /\ pc.err # "nil" =>
              /\ UNCHANGED <<q, visit>>
              /\ pc'.err = pc.err
        /\ pc'.fn = "NewTree" => pc'.err = "nil"
        /\ pc'.fn = "run" => (ret'[pc'.tree] # "nil") = (pc'.err # "nil")
      ]_vars

\* C14 witness: run() has ended with the error of a walk that failed on a
\* folder with children while another entry was still queued.
C14_Witness ==
    /\ pc.fn = "run" /\ pc.at = "failed"
    /\ pc.err = "mkdir"
    /\ q # <<>>
    /\ Files[visit.f] # <<>>

----------------------------------------------------------------------------
(* Claims C15 - C16: shortcuts *)

\* The elements of a path, and the last of them.
Elems(path) == SplitSlash(path, <<>>, <<>>)
LastElem(path) == Last(Elems(path))

\* Node c is among the children of node t.
ChildOf(c, t) == \E i \in 1..Len(Files[t]) : Files[t][i] = c

\* C15: when the node of a visited entry is a shortcut with a target, visit
\* receives the target, under a path whose last element is the sanitized
\* name of the shortcut; and the entries enqueued for it are the children
\* of the target, each under the path of the shortcut (last but one element
\* the shortcut's sanitized name, last element its own), with the target
\* among the parents it carries.
C15_ShortcutVisitsTarget ==
    /\ (visit # NoVisit /\ ShortcutTarget(list, visit.via) # NoTarget) =>
          /\ visit.f = ShortcutTarget(list, visit.via)
          /\ LastElem(visit.path) = Sanitize(NameOf(list, visit.via))
    /\ \A k \in 1..Len(q) :
          (q[k].trail # <<>> /\ ShortcutTarget(list, Last(q[k].trail).f) # NoTarget) =>
              LET s == Last(q[k].trail).f
                  el == Elems(q[k].path)
              IN  /\ ChildOf(q[k].f, ShortcutTarget(list, s))
                  /\ ShortcutTarget(list, s) \in q[k].parents
                  /\ Len(el) >= 2
                  /\ el[Len(el) - 1] = Sanitize(NameOf(list, s))
                  /\ el[Len(el)] = Sanitize(NameOf(list, q[k].f))

\* C15 witness: DownloadTree has visited a shortcut to a folder, creating
\* the directory under the shortcut's path, and the folder's children are
\* queued behind it.
C15_Witness ==
    /\ InDownload
    /\ visit # NoVisit /\ visit.via # visit.f
    /\ IsFolder(list, visit.f)
    /\ visit.path \in dirs
    /\ q # <<>> /\ Last(q).trail # <<>>
    /\ Last(Last(q).trail).f = visit.via

\* The entry of the latest visit was a shortcut whose link target is absent.
TargetAbsent ==
    /\ NodeFile(list, visit.via).MimeType = FileTypeShortcut
    /\ ShortcutTarget(list, visit.via) = NoTarget

IsPrefix(s, t) == Len(s) <= Len(t) /\ SubSeq(t, 1, Len(s)) = s

\* The latest job handed to the channel is the job of the latest visit.
JobOfVisit ==
    /\ JobsOut # <<>>
    /\ Last(JobsOut).File = visit.f
    /\ IsPrefix(visit.path, Last(JobsOut).Path)

\* C16: in DownloadTree the visit of a folder makes no job, the visit of an
\* entry that is a shortcut without a link target makes no job, and the
\* visit of every other entry, a shortcut to a shortcut that has a target
\* included, makes the job that is handed to the channel next.
C16_SkipOnlyUnresolved ==
    (InDownload /\ pc.at \in {"walk", "send"} /\ visit # NoVisit) =>
        IF IsFolder(list, visit.f) \/ TargetAbsent THEN ~JobOfVisit ELSE JobOfVisit

----------------------------------------------------------------------------
(* Claim C17: backpressure *)

\* The jobs received from the channel whose DownloadFile has not returned.
Unfinished == { k \in 1..Len(sent) : processed[k] = <<>> }

\* C17: with N downloaders at most N jobs have been sent and are not yet
\* finished, and no job but the one in the waiting send exists besides
\* them; while its send waits the producer leaves the queue of the walk,
\* the visits, the directories and the files map as they are.
C17_Backpressure ==
    /\ [](/\ Cardinality(Unfinished) <= Cardinality(Workers)
          /\ Len(JobsOut) <= Len(sent) + 1
          /\ sending # NoJob => (InDownload /\ pc.at = "send"))
    /\ [][(InDownload /\ pc.at = "send") => UNCHANGED <<q, visit, dirs, files>>]_vars

\* C17 witness: every downloader is at work and the producer is blocked in
\* the send of one more job.
C17_Witness ==
    /\ InDownload /\ pc.at = "send"
    /\ sending # NoJob
    /\ \A w \in Workers : wk[pc.tree][w].st = "busy"
    /\ Cardinality(Unfinished) = Cardinality(Workers)

----------------------------------------------------------------------------
(* Claim C18: the suffix policy of the uniqueness check *)

\* The name <base>_<k><ext> for path.
Suffixed(path, k) ==
    LET dot == CHOOSE i \in 0..Len(path) :
                   /\ i = 0 \/ path[i] = "."
                   /\ \A j \in (i + 1)..Len(path) : path[j] # "."
        cut == IF dot = 0 \/ \E j \in dot..Len(path) : path[j] = "/"
               THEN Len(path) ELSE dot - 1
    IN  SubSeq(path, 1, cut) \o <<"_">> \o Decimal(k)
            \o SubSeq(path, cut + 1, Len(path))

\* The paths of the jobs built before the k-th job.
EarlierPaths(k) == { JobsOut[i].Path : i \in 1..(k - 1) }

\* The k-th job is the Occurrence(k)-th job with its candidate path.
Occurrence(k) ==
    Cardinality({ i \in 1..k : JobsOut[i].Cand = JobsOut[k].Cand })

\* C18 as stated: the first job with candidate path P keeps P; the k-th job
\* (k >= 2) with candidate P gets <base>_<k><ext> when that name is free
\* and another free name otherwise.
C18_SuffixPolicy ==
    \A k \in 1..Len(JobsOut) :
        LET j == JobsOut[k]
            r == Occurrence(k)
        IN  /\ r = 1 => j.Path = j.Cand
            /\ (r >= 2 /\ Suffixed(j.Cand, r) \notin EarlierPaths(k)) =>
                  j.Path = Suffixed(j.Cand, r)
            /\ r >= 2 => j.Path \notin EarlierPaths(k) \cup {j.Cand}

\* C18 amended: a job keeps its candidate path P exactly when no earlier job
\* of the call was sent under P, be it as its own candidate or as the
\* result of a renaming; otherwise it is sent under a free name made from P
\* by one suffix _<n>, n >= 2, or by a second suffix on such a name that was
\* taken; the k-th job (k >= 2) with candidate P gets <base>_<k><ext> when
\* that name is free.
C18_SuffixPolicyAmended ==
    \A k \in 1..Len(JobsOut) :
        LET j == JobsOut[k]
            r == Occurrence(k)
        IN  /\ (j.Path = j.Cand) = (j.Cand \notin EarlierPaths(k))
            /\ j.Path \notin EarlierPaths(k)
            /\ (r >= 2 /\ Suffixed(j.Cand, r) \notin EarlierPaths(k)) =>
                  j.Path = Suffixed(j.Cand, r)
            /\ j.Cand \in EarlierPaths(k) =>
                  \E n \in 2..k :
                      \/ j.Path = Suffixed(j.Cand, n)
                      \/ /\ Suffixed(j.Cand, n) \in EarlierPaths(k)
                         /\ \E m \in 2..k : j.Path = Suffixed(Suffixed(j.Cand, n), m)

\* C18 witness: three jobs of one folder: the second has the candidate of
\* the first and was sent under <base>_2, the third is the first job with
\* that very name as its candidate and was sent under <base>_2_2.
C18_Witness ==
    /\ Len(JobsOut) = 3
    /\ JobsOut[2].Cand = JobsOut[1].Cand
    /\ JobsOut[2].Path = Suffixed(JobsOut[1].Path, 2)
    /\ JobsOut[3].Cand = JobsOut[2].Path
    /\ JobsOut[3].Path = Suffixed(JobsOut[2].Path, 2)

----------------------------------------------------------------------------
(* DownloadFile, md5Verify, mtimeVerify and writeBody *)

\* Local modification times and the clock are hours 0 .. MaxHour.
MaxHour == 4

\* The model stops calling DownloadFile after this many calls.
MaxRuns == 2

FileTypeSDKPrefix == "application/vnd.google-apps.drive-sdk."

\* The type of a file of a third-party application.
FileTypeSDKApp == "application/vnd.google-apps.drive-sdk.796396377186"

FileTypeFusionTable == "application/vnd.google-apps.fusiontable"

SkipTypes == { FileTypeFusionTable, "application/vnd.google-apps.map" }

ExportTypes ==
    [m \in {FileTypeDocument} |->
        "application/vnd.openxmlformats-officedocument.wordprocessingml.document"]

\* strings.HasPrefix(mime, FileTypeSDKPrefix), on the types of the model.
HasSDKPrefix(mime) == mime = FileTypeSDKApp

\* The file contents of the model: two bytes each.
Contents == { <<x, y>> : x \in {"a", "b"}, y \in {"a", "b"} }

\* hex.EncodeToString(md5(bytes))
Md5Hex(bytes) ==
    CASE bytes = <<"a", "a">> -> "4124bc0a9335c27f086f24ba207a4912"
      [] bytes = <<"a", "b">> -> "187ef4436122d1cc2f40dc2b92f0eba0"
      [] bytes = <<"b", "a">> -> "07159c47ee1b19ae4fb9c40d480856c4"
      [] bytes = <<"b", "b">> -> "21ad0bd836b90d08f4cf640b4c298e7c"
      [] OTHER -> "d41d8cd98f00b204e9800998ecf8427e"

\* The ModifiedTime strings of the model: none, a date without a time, and
\* three instants (one of them given in another time zone).
ModifiedTimes ==
    { "", "2024-01-01", "2024-01-01T01:00:00Z", "2024-01-01T03:00:00+01:00",
      "2024-01-01T03:00:00Z" }

\* time.Parse(time.RFC3339, s): an error, or the instant in hours since
\* 2024-01-01T00:00:00Z.
TimeParse(s) ==
    CASE s = "2024-01-01T01:00:00Z"      -> [ok |-> TRUE, t |-> 1]
      [] s = "2024-01-01T03:00:00+01:00" -> [ok |-> TRUE, t |-> 2]
      [] s = "2024-01-01T03:00:00Z"      -> [ok |-> TRUE, t |-> 3]
      [] OTHER                           -> [ok |-> FALSE, t |-> 0]

LocalFile(bytes, mtime) == [exists |-> TRUE, bytes |-> bytes, mtime |-> mtime]

\* "if _, ok := SkipTypes[f.MimeType]; ok || strings.HasPrefix(...)"
SkipListed(mime) == mime \in SkipTypes \/ HasSDKPrefix(mime)

\* Faulty variant: any existing file passes.
Md5VerifyAnyFile(local, hash) == local.exists

\* md5Verify: a file exists at path and md5(file) == hash
md5Verify(local, hash) == local.exists /\ Md5Hex(local.bytes) = hash

\* Faulty variant: the local file has to be newer.
MtimeVerifyNewer(local, t) == local.exists /\ local.mtime > t

\* mtimeVerify: a file exists at path and its ModTime is not before t
mtimeVerify(local, t) == local.exists /\ ~(local.mtime < t)

\* DownloadFile returns (false, nil) before any transfer.
UpToDate(f, local) ==
    IF f.MimeType \in DOMAIN ExportTypes
    THEN /\ f.ModifiedTime # ""
         /\ TimeParse(f.ModifiedTime).ok
         /\ mtimeVerify(local, TimeParse(f.ModifiedTime).t)
    ELSE md5Verify(local, f.Md5Checksum)

\* writeBody(r, path, timestamp) for a body that is read to the end: the
\* file at path afterwards and the error returned.
writeBody(body, timestamp, now) ==
    IF timestamp = ""
    THEN [local |-> LocalFile(body, now), err |-> "nil"]
    ELSE IF ~TimeParse(timestamp).ok
    THEN [local |-> LocalFile(body, now), err |-> "could not parse modified time"]
    ELSE [local |-> LocalFile(body, TimeParse(timestamp).t), err |-> "nil"]

\* The record of one call: the results, whether a transfer was attempted,
\* and the local file the call found and the one it left.
Run(downloaded, err, transfer, seen, left) ==
    [downloaded |-> downloaded, err |-> err, transfer |-> transfer,
     seen |-> seen, left |-> left]

\* The line the downloader prints for a call of DownloadFile.
Report(r) ==
    IF r.err # "nil" THEN "could not download file"
    ELSE IF ~r.downloaded THEN "skipped existing file"
    ELSE "downloaded"

\* The files DownloadFile is called on: a converted document, a binary file
\* with or without checksum, and two types that are not downloaded; the
\* body the server sends has the checksum of the metadata or another one.
DriveFiles ==
    { [MimeType |-> m, Md5Checksum |-> h, ModifiedTime |-> t, Body |-> b] :
        m \in {FileTypeDocument, FileTypePlain, FileTypeFusionTable, FileTypeSDKApp},
        h \in {"", Md5Hex(<<"a", "a">>)},
        t \in ModifiedTimes,
        b \in { <<"a", "a">>, <<"a", "b">> } }

\* The local files found at the path: none, or one written in the past.
LocalFiles(now) ==
    {NoFile} \cup { LocalFile(b, t) : b \in Contents, t \in 0..now }

InitSync ==
    /\ TreeOff("DownloadFile")
    /\ RetryIdle
    /\ dFile \in DriveFiles
    /\ dNow \in 0..MaxHour
    /\ dLocal \in LocalFiles(dNow)
    /\ dRuns = <<>>

CanCall == Len(dRuns) < MaxRuns

\* DownloadFile on a skipped type: (false, ErrNoExportableFormat).
DFSkipType ==
    /\ CanCall
    /\ SkipListed(dFile.MimeType)
    /\ dRuns' = Append(dRuns, Run(FALSE, "no exportable format", FALSE, dLocal, dLocal))
    /\ UNCHANGED <<treeVars, pc, walkVars, dlVars, retryVars, dFile, dLocal, dNow>>

\* DownloadFile finds the local file up to date: (false, nil).
DFUpToDate ==
    /\ CanCall
    /\ ~SkipListed(dFile.MimeType)
    /\ UpToDate(dFile, dLocal)
    /\ dRuns' = Append(dRuns, Run(FALSE, "nil", FALSE, dLocal, dLocal))
    /\ UNCHANGED <<treeVars, pc, walkVars, dlVars, retryVars, dFile, dLocal, dNow>>

\* DownloadFile exports or downloads: the request succeeds and writeBody
\* writes the file.
DFTransfer ==
    /\ CanCall
    /\ ~SkipListed(dFile.MimeType)
    /\ ~UpToDate(dFile, dLocal)
    /\ LET w == writeBody(dFile.Body, dFile.ModifiedTime, dNow)
       IN  /\ dLocal' = w.local
           /\ dRuns' = Append(dRuns, Run(TRUE, w.err, TRUE, dLocal, w.local))
    /\ UNCHANGED <<treeVars, pc, walkVars, dlVars, retryVars, dFile, dNow>>

\* DownloadFile exports or downloads: retry returns the error of the request.
DFTransferErr ==
    /\ CanCall
    /\ ~SkipListed(dFile.MimeType)
    /\ ~UpToDate(dFile, dLocal)
    /\ dRuns' = Append(dRuns, Run(TRUE, "could not complete request", TRUE, dLocal, dLocal))
    /\ UNCHANGED <<treeVars, pc, walkVars, dlVars, retryVars, dFile, dLocal, dNow>>

\* The contents that differ from bytes in exactly one byte.
OneByteChanged(bytes) ==
    { c \in Contents : Cardinality({ i \in 1..Len(bytes) : c[i] # bytes[i] }) = 1 }

\* Between two runs somebody changes one byte of the local file.
LocalEdit ==
    /\ dRuns # <<>> /\ CanCall
    /\ dLocal.exists
    /\ \E c \in OneByteChanged(dLocal.bytes) : dLocal' = LocalFile(c, dNow)
    /\ UNCHANGED <<treeVars, pc, walkVars, dlVars, retryVars, dFile, dNow, dRuns>>

NextSync == DFSkipType \/ DFUpToDate \/ DFTransfer \/ DFTransferErr \/ LocalEdit

SpecSync == InitSync /\ [][NextSync]_vars

----------------------------------------------------------------------------
(* Claim C19: the skip decision of DownloadFile *)

\* Case (a): a converted type, a remote time that is present and parses,
\* and a local file not older than it.
SkipByTime(f, local) ==
    /\ f.MimeType \in DOMAIN ExportTypes
    /\ f.ModifiedTime # "" /\ TimeParse(f.ModifiedTime).ok
    /\ local.exists /\ local.mtime >= TimeParse(f.ModifiedTime).t

\* Case (b): any other type and a local file with the remote checksum.
SkipByChecksum(f, local) ==
    /\ f.MimeType \notin DOMAIN ExportTypes
    /\ local.exists /\ Md5Hex(local.bytes) = f.Md5Checksum

\* C19: for a file whose type is not skipped, DownloadFile returns
\* downloaded = false without a transfer exactly in the cases (a) and (b),
\* and attempts the transfer in every other case; a file skipped for its
\* checksum is transferred on the next run when one of its bytes was changed
\* in between.
C19_SkipDecision ==
    ~SkipListed(dFile.MimeType) =>
        /\ \A i \in 1..Len(dRuns) :
              LET skip == SkipByTime(dFile, dRuns[i].seen)
                          \/ SkipByChecksum(dFile, dRuns[i].seen)
              IN  /\ skip => dRuns[i] = Run(FALSE, "nil", FALSE, dRuns[i].seen,
                                               dRuns[i].seen)
                  /\ ~skip => (dRuns[i].downloaded /\ dRuns[i].transfer)
        /\ \A i \in 1..(Len(dRuns) - 1) :
              ( /\ SkipByChecksum(dFile, dRuns[i].seen)
                /\ dRuns[i + 1].seen.exists
                /\ dRuns[i + 1].seen.bytes \in OneByteChanged(dRuns[i].seen.bytes) )
              => dRuns[i + 1].transfer

\* C19 witness: a binary file was skipped for its checksum, one byte of the
\* local file was changed, and the next run wrote the remote bytes again.
C19_Witness ==
    /\ Len(dRuns) = 2
    /\ SkipByChecksum(dFile, dRuns[1].seen)
    /\ ~dRuns[1].transfer
    /\ dRuns[2].seen.bytes \in OneByteChanged(dRuns[1].seen.bytes)
    /\ dRuns[2].transfer /\ dRuns[2].err = "nil"
    /\ dLocal.bytes = dFile.Body

----------------------------------------------------------------------------
(* Claim C20: the export extension of a shortcut *)

\* The latest visit of DownloadTree made a job for a file of a converted
\* type.
ExportedJobOfVisit ==
    /\ InDownload /\ pc.at \in {"walk", "send"}
    /\ visit # NoVisit
    /\ JobOfVisit
    /\ NodeFile(list, visit.f).MimeType \in DOMAIN ExportExtensions

ExtensionOfVisit == ExportExtensions[NodeFile(list, visit.f).MimeType]

\* C20 as stated: the job of a shortcut to a file of a converted type has
\* the path of the entry, ending with the sanitized name of the shortcut,
\* as its candidate path, while the job of a direct entry has the mapped
\* extension appended.
C20_ShortcutNoExtension ==
    ExportedJobOfVisit =>
        Last(JobsOut).Cand =
            IF visit.via # visit.f THEN visit.path
            ELSE visit.path \o ExtensionOfVisit

\* C20 amended: the job of a shortcut to a file of a converted type gets the
\* extension mapped from the type of the target, like the job of a direct
\* entry: the candidate path is the path of the entry, which ends with the
\* sanitized name of the shortcut, followed by the extension; a job for a
\* file of any other type has the path of the entry as candidate.
C20_ShortcutGetsExtension ==
    (InDownload /\ pc.at \in {"walk", "send"} /\ visit # NoVisit /\ JobOfVisit) =>
        IF NodeFile(list, visit.f).MimeType \in DOMAIN ExportExtensions
        THEN /\ Last(JobsOut).Cand = visit.path \o ExtensionOfVisit
             /\ LastElem(Last(JobsOut).Cand) =
                    Sanitize(NameOf(list, visit.via)) \o ExtensionOfVisit
        ELSE Last(JobsOut).Cand = visit.path

\* C20 witness: the job of a shortcut to a document went out under the
\* name of the shortcut with the extension .docx.
C20_Witness ==
    /\ ExportedJobOfVisit
    /\ visit.via # visit.f
    /\ NodeFile(list, visit.via).MimeType = FileTypeShortcut
    /\ Ext(Last(JobsOut).Path) = <<".", "d", "o", "c", "x">>

----------------------------------------------------------------------------
(* Claim C21: running again transfers nothing *)

\* The file carries what the skip decision of its kind needs: a remote
\* modification time (converted kind) or a remote checksum (other kinds).
CarriesSyncData(f) ==
    IF f.MimeType \in DOMAIN ExportTypes
    THEN f.ModifiedTime # ""
    ELSE f.Md5Checksum # ""

\* Run i transferred the file without error and wrote content that has the
\* remote checksum where there is one.
TransferSucceeded(i) ==
    /\ dRuns[i].transfer /\ dRuns[i].err = "nil"
    /\ dRuns[i].left.exists
    /\ dFile.Md5Checksum # "" => Md5Hex(dRuns[i].left.bytes) = dFile.Md5Checksum

\* C21: running again is idempotent.  The jobs of a second DownloadTree call
\* on the same tree are the jobs of the first (C13), one local path each
\* (C4), so the claim is one about the two calls of DownloadFile a path
\* gets: when the first call transferred the file successfully, the local
\* file was not touched before the second call, and the file carries a
\* remote checksum (kind not converted) or a remote modification time
\* (converted kind), the second call makes no transfer, is reported as
\* skipped, and leaves the local file as it found it.
C21_RerunSkips ==
    \A i \in 1..(Len(dRuns) - 1) :
        ( /\ TransferSucceeded(i)
          /\ dRuns[i + 1].seen = dRuns[i].left
          /\ CarriesSyncData(dFile) )
        => /\ ~dRuns[i + 1].transfer
           /\ ~dRuns[i + 1].downloaded
           /\ Report(dRuns[i + 1]) = "skipped existing file"
           /\ dRuns[i + 1].left = dRuns[i + 1].seen

\* C21 witness: a converted document was exported over an older local
\* file, which got the remote modification time, and the second run
\* skipped it while the clock showed a later hour.
C21_Witness ==
    /\ Len(dRuns) >= 2
    /\ dFile.MimeType \in DOMAIN ExportTypes
    /\ TransferSucceeded(1)
    /\ dRuns[1].seen.exists
    /\ dRuns[1].left.mtime < dNow
    /\ dRuns[2].seen = dRuns[1].left
    /\ Report(dRuns[2]) = "skipped existing file"

====
